---- MODULE Spec2Model ----
(***************************************************************************)
(* A model of the transaction classifier's core: the two response parsers  *)
(* of BedrockService, the classification client, the file-based            *)
(* cancellation registry and the upload pipeline (HTTP handler plus        *)
(* TransactionService).  TransactionService calls the client with the      *)
(* user id, so the client is the one that takes it (the built              *)
(* bedrock_service.py, which checks the marker first); the parsers are the *)
(* three-strategy ones of backend/app/services/bedrock_service.py.         *)
(*                                                                         *)
(* Text.  A model reply is a sequence of tokens.  A token is a record      *)
(* [k, v]: raw punctuation ("lb" {, "rb" }, "lk" [, "rk" ], "comma", "nl"),*)
(* a complete flat JSON object text ("obj", v = its fields), a bare word,  *)
(* a bare number, a bare YYYY-MM-DD date, or a quoted string.  Strings     *)
(* hold no braces, brackets or quotes, and objects are flat, as the        *)
(* prompts require.  Numbers are counted in hundredths: 85 is 0.85 and     *)
(* 100 is 1.0.                                                             *)
(***************************************************************************)
EXTENDS Integers, Sequences, FiniteSets, TLC

VARIABLES
    marker,     \* the cancellation registry: marker[u] iff /tmp/cancel_<u> exists
    up,         \* the upload requests: up[r] is request r's position and data
    cfg,        \* the deployment: the live request slots, settings.allowed_file_types
    today,      \* the current date, read by datetime.now()
    reply,      \* client specification: what the model invocation yields
    stage,      \* client specification: "classify"/"extract", then "classified"/"extracted"
    parsed      \* client specification: what the client call gave its caller

vars == <<marker, up, cfg, today, reply, stage, parsed>>

-----------------------------------------------------------------------------
(* JSON values and tokens *)

JStr(s) == [t |-> "str", v |-> s]
JNum(n) == [t |-> "num", v |-> n]
JTxt(toks) == [t |-> "txt", v |-> toks]

Tok(k, v) == [k |-> k, v |-> v]
LB == Tok("lb", "{")
RB == Tok("rb", "}")
LK == Tok("lk", "[")
RK == Tok("rk", "]")
COMMA == Tok("comma", ",")
NL == Tok("nl", "\n")
Obj(f) == Tok("obj", f)
Word(w) == Tok("word", w)
Num(n) == Tok("num", n)
Quoted(w) == Tok("quoted", w)
DateTok(d) == Tok("date", d)

MinOf(S) == CHOOSE i \in S : \A j \in S : i <= j
MaxOf(S) == CHOOSE i \in S : \A j \in S : i >= j

Positions(s, kinds) == {i \in 1..Len(s) : s[i].k \in kinds}

RECURSIVE DropNL(_)
DropNL(s) ==
    IF s = <<>> THEN <<>>
    ELSE IF Head(s).k = "nl" THEN DropNL(Tail(s))
    ELSE <<Head(s)>> \o DropNL(Tail(s))

\* json.loads of a token slice that starts with '{' and ends with '}'.
\* With flat objects only, the valid texts are one object token or "{" "}".
JsonLoadsObject(slice) ==
    LET s == DropNL(slice) IN
    IF Len(s) = 1 /\ s[1].k = "obj" THEN [ok |-> TRUE, val |-> s[1].v]
    ELSE IF Len(s) = 2 /\ s[1].k = "lb" /\ s[2].k = "rb" THEN [ok |-> TRUE, val |-> <<>>]
    ELSE [ok |-> FALSE, val |-> <<>>]

-----------------------------------------------------------------------------
(* String atoms: what the string operations of the parsers do on the strings
   of the model *)

\* The strings re.match(r'^\d{4}-\d{2}-\d{2}$', s) accepts; "2024-02-30" has
\* the shape and is no calendar date.
IsoDates == {"2024-01-15", "2024-02-30", "2026-11-05", "2026-11-06"}
IsoShaped(a) == a \in IsoDates

\* s.strip() = ''
Blank(a) == a \in {"", " "}

\* The first match of r'([+-]?\d+\.?\d*)' in a string, in hundredths.
FirstNumberOf(a) ==
    CASE a \in {"2024-01-15", "2024-02-30"} -> [ok |-> TRUE, n |-> 202400]
      [] a \in {"2026-11-05", "2026-11-06"} -> [ok |-> TRUE, n |-> 202600]
      [] a = "15/01/2024" -> [ok |-> TRUE, n |-> 1500]
      [] a = "$1,380.44" -> [ok |-> TRUE, n |-> 100]
      [] a = "-45.50" -> [ok |-> TRUE, n |-> -4550]
      [] a = "0.00" -> [ok |-> TRUE, n |-> 0]
      [] OTHER -> [ok |-> FALSE, n |-> 0]

YearOf(a) == FirstNumberOf(a).n \div 100

\* float(s.strip().replace(',', '').replace('$', '').replace('£', '').replace('€', '')),
\* in hundredths; not ok when float raises ValueError.
FloatOfAmountString(a) ==
    CASE a = "$1,380.44" -> [ok |-> TRUE, n |-> 138044]
      [] a = "-45.50" -> [ok |-> TRUE, n |-> -4550]
      [] a = "0.00" -> [ok |-> TRUE, n |-> 0]
      [] OTHER -> [ok |-> FALSE, n |-> 0]

\* s.strip().upper()
UpperStrip(a) ==
    CASE a = "gbp" -> "GBP"
      [] a = " usd" -> "USD"
      [] OTHER -> a

-----------------------------------------------------------------------------
(* Regular expressions of the parsers, on tokens *)

\* The atoms (lower-cased keys, words and string values) a token's text holds.
TokAtoms(tok) ==
    CASE tok.k \in {"word", "quoted"} -> {tok.v}
      [] tok.k = "obj" ->
            DOMAIN tok.v \cup {tok.v[f].v : f \in {g \in DOMAIN tok.v : tok.v[g].t = "str"}}
      [] OTHER -> {}

TextContains(s, w) == \E i \in 1..Len(s) : w \in TokAtoms(s[i])

\* Index of the first non-newline token after position i, 0 when there is none.
NextNonSpace(s, i) ==
    LET later == {j \in (i+1)..Len(s) : s[j].k # "nl"} IN
    IF later = {} THEN 0 ELSE MinOf(later)

\* Index of the first token at or after position from whose kind is in kinds,
\* 0 when there is none.
FirstOf(s, from, kinds) ==
    LET later == {j \in from..Len(s) : s[j].k \in kinds} IN
    IF later = {} THEN 0 ELSE MinOf(later)

\* One match of r'\{[^{}]*"[^"]*"[^{}]*\}' that starts at the '{' of token i:
\* the index of the token its '}' ends, 0 when no match starts there.  The
\* pattern is '{', a brace-free run, a quote, a QUOTE-free run (which may hold
\* braces), a quote, a brace-free run, '}', each run as long as it can be.  So
\* the first quote is the last one before the next brace, the second quote is
\* the next quote of the text wherever it is, and the first brace after it must
\* be a '}'.  When that fails, the two quotes are taken before the next brace.
MatchEnd(s, i) ==
    LET brace == FirstOf(s, i + 1, {"lb", "rb", "obj"})
        hi == IF brace = 0 THEN Len(s) ELSE brace - 1
        quoted == {j \in (i + 1)..hi : s[j].k = "quoted"}
        lastq == IF s[i].k = "obj" THEN i ELSE IF quoted = {} THEN 0 ELSE MaxOf(quoted)
        j == IF lastq = 0 THEN 0 ELSE FirstOf(s, lastq + 1, {"quoted", "obj"})
        b == IF j = 0 THEN 0 ELSE FirstOf(s, j + 1, {"lb", "rb", "obj"})
    IN  IF lastq = 0 THEN 0
        ELSE IF j # 0 /\ s[j].k = "obj" THEN j
        ELSE IF j # 0 /\ b # 0 /\ s[b].k = "rb" THEN b
        ELSE IF s[i].k = "obj" THEN i
        ELSE IF brace # 0 /\ s[brace].k = "rb" THEN brace
        ELSE 0

\* re.findall(pattern, response): the non-overlapping matches, left to right.
RECURSIVE FindAllFrom(_, _)
FindAllFrom(s, i) ==
    IF i > Len(s) THEN <<>>
    ELSE IF s[i].k \in {"lb", "obj"} /\ MatchEnd(s, i) # 0
         THEN <<SubSeq(s, i, MatchEnd(s, i))>> \o FindAllFrom(s, MatchEnd(s, i) + 1)
         ELSE FindAllFrom(s, i + 1)

JsonObjectMatches(s) == FindAllFrom(s, 1)

-----------------------------------------------------------------------------
(* BedrockService._construct_json_from_text *)

\* re.search(r'confidence[:\s]*(\d*\.?\d*)', text.lower()): the first occurrence
\* of "confidence" always matches; the group is the unsigned number that follows
\* it, or empty, and float('') raises, which the code turns into 0.5.
ConfidenceFromText(s) ==
    LET occ == {i \in 1..Len(s) : "confidence" \in TokAtoms(s[i])} IN
    IF occ = {} THEN JNum(50)
    ELSE LET i == MinOf(occ)
             n == NextNonSpace(s, i)
         IN  IF s[i].k = "word" /\ n # 0 /\ s[n].k = "num" /\ s[n].v >= 0
             THEN JNum(s[n].v)
             ELSE IF s[i].k = "word" /\ n # 0 /\ s[n].k = "date"
             THEN JNum(YearOf(s[n].v) * 100)
             ELSE JNum(50)

\* The tokens from position i to the end of its line.
RestOfLine(s, i) ==
    LET nls == {j \in i..Len(s) : s[j].k = "nl"}
        e == IF nls = {} THEN Len(s) ELSE MinOf(nls) - 1
    IN  SubSeq(s, i, e)

\* re.search(r'reasoning[:\s]*(.+?)(?=\n|$)', text.lower()): the first occurrence
\* of "reasoning" that something follows; the group is the rest of that line.
\* Inside an object or a quoted string the rest of the token itself follows.
ReasoningFromText(s) ==
    LET occ == {i \in 1..Len(s) : "reasoning" \in TokAtoms(s[i])
                    /\ (s[i].k = "word" => NextNonSpace(s, i) # 0)} IN
    IF occ = {} THEN JStr("Extracted from text analysis")
    ELSE LET i == MinOf(occ) IN
         IF s[i].k = "word" THEN JTxt(RestOfLine(s, NextNonSpace(s, i)))
         ELSE JTxt(RestOfLine(s, i))

\* re.search(r'category[:\s]*(\w+)', text.lower()): the first occurrence of
\* "category" that a word character follows; the group is that word, or the
\* leading digits of a number or of a date.
CategoryFromText(s) ==
    LET follows(i) == NextNonSpace(s, i)
        wordy(tok) == tok.k \in {"word", "date"} \/ (tok.k = "num" /\ tok.v >= 0)
        occ == {i \in 1..Len(s) : "category" \in TokAtoms(s[i]) /\ s[i].k = "word"
                    /\ follows(i) # 0 /\ wordy(s[follows(i)])} IN
    IF occ = {} THEN JStr("unknown")
    ELSE LET n == s[follows(MinOf(occ))] IN
         IF n.k = "word" THEN JStr(n.v)
         ELSE IF n.k = "num" THEN JTxt(<<Tok("digits", n.v \div 100)>>)
         ELSE JTxt(<<Tok("digits", YearOf(n.v))>>)

ClassificationFromText(s) ==
    IF TextContains(s, "business") THEN JStr("business")
    ELSE IF TextContains(s, "personal") THEN JStr("personal")
    ELSE JStr("personal")

ConstructJsonFromText(s) ==
    [classification |-> ClassificationFromText(s),
     confidence |-> ConfidenceFromText(s),
     reasoning |-> ReasoningFromText(s),
     category |-> CategoryFromText(s)]

-----------------------------------------------------------------------------
(* BedrockService._parse_llm_response *)

RequiredFields == {"classification", "confidence", "reasoning", "category"}

\* Faulty variant: a missing field gets the value the text reconstruction
\* would give it.
FieldDefaultFromText(f) ==
    IF f = "category" THEN JStr("unknown")
    ELSE IF f = "confidence" THEN JNum(50)
    ELSE IF f = "classification" THEN JStr("personal")
    ELSE JStr("Extracted from text analysis")

FieldDefault(f) ==
    IF f = "category" THEN JStr("unknown")
    ELSE IF f = "confidence" THEN JNum(0)
    ELSE JStr("unknown")

\* Strategy 1: the text from the first '{' to the last '}', parsed strictly.
BraceScan(s) ==
    LET opens == Positions(s, {"lb", "obj"})
        closes == Positions(s, {"rb", "obj"})
    IN  IF opens # {} /\ closes # {} /\ MaxOf(closes) >= MinOf(opens)
        THEN JsonLoadsObject(SubSeq(s, MinOf(opens), MaxOf(closes)))
        ELSE [ok |-> FALSE, val |-> <<>>]

\* Strategy 2: the first regex match, parsed strictly.
RegexObject(s) ==
    LET matches == JsonObjectMatches(s) IN
    IF matches # <<>> THEN JsonLoadsObject(matches[1])
    ELSE [ok |-> FALSE, val |-> <<>>]

\* Which strategy produced the result: 1, 2 or 3.
StrategyOf(s) ==
    IF BraceScan(s).ok THEN 1 ELSE IF RegexObject(s).ok THEN 2 ELSE 3

\* "Validate and fill missing fields": a field that is present is left as it is.
FillMissingFields(result) ==
    [f \in DOMAIN result \cup RequiredFields |->
        IF f \in DOMAIN result THEN result[f] ELSE FieldDefault(f)]

ParseLlmResponse(s) ==
    LET result == IF BraceScan(s).ok THEN BraceScan(s).val
                  ELSE IF RegexObject(s).ok THEN RegexObject(s).val
                  ELSE ConstructJsonFromText(s)
    IN  FillMissingFields(result)

-----------------------------------------------------------------------------
(* JSON arrays: json.loads of the text from the first '[' to the last ']' *)

JNull == [t |-> "null", v |-> 0]
JList(n) == [t |-> "list", v |-> n]
JBool(b) == [t |-> "bool", v |-> b]

\* A parsed JSON object is a function from its keys; every other value is tagged.
IsDict(c) == "t" \notin DOMAIN c

Fail == [ok |-> FALSE, val |-> <<>>, next |-> 0]

RECURSIVE ParseValue(_, _), ParseElems(_, _, _)
ParseValue(s, i) ==
    IF i > Len(s) THEN Fail
    ELSE CASE s[i].k = "obj" -> [ok |-> TRUE, val |-> s[i].v, next |-> i + 1]
           [] s[i].k = "num" -> [ok |-> TRUE, val |-> JNum(s[i].v), next |-> i + 1]
           [] s[i].k = "quoted" -> [ok |-> TRUE, val |-> JStr(s[i].v), next |-> i + 1]
           [] s[i].k = "lb" ->
                IF i + 1 <= Len(s) /\ s[i + 1].k = "rb"
                THEN [ok |-> TRUE, val |-> <<>>, next |-> i + 2] ELSE Fail
           [] s[i].k = "lk" ->
                IF i + 1 <= Len(s) /\ s[i + 1].k = "rk"
                THEN [ok |-> TRUE, val |-> <<>>, next |-> i + 2, list |-> TRUE]
                ELSE LET r == ParseElems(s, i + 1, <<>>) IN
                     IF r.ok THEN [ok |-> TRUE, val |-> r.val, next |-> r.next, list |-> TRUE]
                     ELSE Fail
           [] OTHER -> Fail

\* The elements after a '[' or a ',', up to the closing ']'.
ParseElems(s, i, acc) ==
    LET e == ParseValue(s, i) IN
    IF ~e.ok \/ e.next > Len(s) THEN Fail
    ELSE LET item == IF "list" \in DOMAIN e THEN JList(Len(e.val)) ELSE e.val IN
         IF s[e.next].k = "comma" THEN ParseElems(s, e.next + 1, Append(acc, item))
         ELSE IF s[e.next].k = "rk"
              THEN [ok |-> TRUE, val |-> Append(acc, item), next |-> e.next + 1]
              ELSE Fail

\* json.loads of a token slice that starts with '[' and ends with ']'.
JsonLoadsArray(slice) ==
    LET s == DropNL(slice)
        r == ParseValue(s, 1)
    IN  IF r.ok /\ r.next = Len(s) + 1 THEN [ok |-> TRUE, val |-> r.val]
        ELSE [ok |-> FALSE, val |-> <<>>]

-----------------------------------------------------------------------------
(* BedrockService._clean_transaction_data *)

None == [ok |-> FALSE, val |-> <<>>]

\* s.strip() on a text: leading and trailing white space goes.
StripText(s) ==
    LET solid == {i \in 1..Len(s) : s[i].k # "nl"} IN
    IF solid = {} THEN <<>> ELSE SubSeq(s, MinOf(solid), MaxOf(solid))

\* s.replace('",', '').replace('"', ''): a quoted string loses its quotes (and
\* the comma right after it), an object text loses the quotes inside it.
RECURSIVE Unquote(_)
Unquote(s) ==
    IF s = <<>> THEN <<>>
    ELSE IF Head(s).k = "quoted" THEN
        LET rest == IF Len(s) >= 2 /\ s[2].k = "comma" THEN Tail(Tail(s)) ELSE Tail(s)
            bare == IF Head(s).v = "" THEN <<>> ELSE <<Word(Head(s).v)>>
        IN  bare \o Unquote(rest)
    ELSE IF Head(s).k = "obj" THEN <<Tok("unquoted", Head(s).v)>> \o Unquote(Tail(s))
    ELSE <<Head(s)>> \o Unquote(Tail(s))

\* A JSON string as a text.
TextOf(v) ==
    IF v.t = "txt" THEN v.v
    ELSE IF v.v = "" THEN <<>> ELSE IF Blank(v.v) THEN <<NL>> ELSE <<Word(v.v)>>

IsString(v) == v.t \in {"str", "txt"}

\* str(x) of a JSON value that is no string.
StrOf(v) ==
    CASE v.t = "num" -> <<Num(v.v)>>
      [] v.t = "null" -> <<Word("None")>>
      [] OTHER -> <<Word("[]")>>

\* The description field: an embedded JSON object is replaced by its
\* description or merchant; quote and comma artifacts are removed.
CleanDescription(v) ==
    IF ~IsString(v) THEN [ok |-> TRUE, val |-> JTxt(StrOf(v))]
    ELSE LET d0 == StripText(TextOf(v))
             braced == d0 # <<>> /\ Head(d0).k \in {"lb", "obj", "broken"}
                          /\ d0[Len(d0)].k \in {"rb", "obj", "broken"}
             j == JsonLoadsObject(d0)
             d1 == IF ~braced THEN JTxt(d0)
                   ELSE IF ~j.ok THEN JTxt(<<Word("Transaction description")>>)
                   ELSE IF "description" \in DOMAIN j.val THEN j.val.description
                   ELSE IF "merchant" \in DOMAIN j.val THEN j.val.merchant
                   ELSE JTxt(<<Word("Transaction description")>>)
         IN  \* a value that is no string has no replace(): AttributeError
             IF ~IsString(d1) THEN None
             ELSE [ok |-> TRUE, val |-> JTxt(StripText(Unquote(TextOf(d1))))]

\* isinstance(amount_val, (int, float)) holds for True and False as well, and
\* float() of them is 1.0 and 0.0.
CleanAmount(v) ==
    IF v.t = "num" THEN [ok |-> TRUE, val |-> v]
    ELSE IF v.t = "bool" THEN [ok |-> TRUE, val |-> JNum(IF v.v THEN 100 ELSE 0)]
    ELSE IF v.t = "str" THEN
        LET f == FloatOfAmountString(v.v) IN
        IF f.ok THEN [ok |-> TRUE, val |-> JNum(f.n)] ELSE None
    ELSE None

\* datetime.now().strftime('%Y-%m-%d') is the date `now`.
CleanDate(v, now) ==
    IF v.t = "str" /\ ~Blank(v.v) THEN
        IF IsoShaped(v.v) THEN v ELSE JStr(now)
    ELSE JStr(now)

CleanCurrency(v) ==
    IF v.t = "str" /\ ~Blank(v.v) THEN JStr(UpperStrip(v.v)) ELSE JStr("USD")

CleanMerchant(v) ==
    IF v.t = "str" /\ ~Blank(v.v) THEN v ELSE JStr("")

CleanedFields == {"date", "description", "amount", "currency", "merchant"}

\* None when the amount cannot be parsed or any step raises; a candidate that
\* is no object never yields the three required keys.
CleanTransactionData(c, now) ==
    IF ~IsDict(c) THEN None
    ELSE LET has(f) == f \in DOMAIN c
             desc == IF has("description") THEN CleanDescription(c.description) ELSE None
             amt == IF has("amount") THEN CleanAmount(c.amount) ELSE None
         IN  IF (has("description") /\ ~desc.ok) \/ (has("amount") /\ ~amt.ok) THEN None
             ELSE [ok |-> TRUE,
                   val |-> [f \in DOMAIN c \cap CleanedFields |->
                              CASE f = "date" -> CleanDate(c.date, now)
                                [] f = "description" -> desc.val
                                [] f = "amount" -> amt.val
                                [] f = "currency" -> CleanCurrency(c.currency)
                                [] f = "merchant" -> CleanMerchant(c.merchant)]]

-----------------------------------------------------------------------------
(* BedrockService._extract_transactions_from_text: the line heuristic *)

\* text.split('\n'), each line stripped.
RECURSIVE SplitLines(_, _)
SplitLines(s, cur) ==
    IF s = <<>> THEN <<cur>>
    ELSE IF Head(s).k = "nl" THEN <<cur>> \o SplitLines(Tail(s), <<>>)
    ELSE SplitLines(Tail(s), Append(cur, Head(s)))

\* The values of an object in the order the prompt lists the fields.
FieldOrder == <<"date", "description", "amount", "currency", "merchant">>

\* The first YYYY-MM-DD a token's text holds.
DateIn(tok) ==
    CASE tok.k \in {"date", "quoted"} ->
            IF IsoShaped(tok.v) THEN [ok |-> TRUE, d |-> tok.v] ELSE [ok |-> FALSE, d |-> ""]
      [] tok.k = "obj" ->
            IF "date" \in DOMAIN tok.v /\ tok.v.date.t = "str" /\ IsoShaped(tok.v.date.v)
            THEN [ok |-> TRUE, d |-> tok.v.date.v] ELSE [ok |-> FALSE, d |-> ""]
      [] OTHER -> [ok |-> FALSE, d |-> ""]

\* The first number a JSON value's text holds.
NumberInValue(v) ==
    CASE v.t = "num" -> [ok |-> TRUE, n |-> v.v]
      [] v.t = "str" -> FirstNumberOf(v.v)
      [] OTHER -> [ok |-> FALSE, n |-> 0]

\* The first match of r'([+-]?\d+\.?\d*)' a token's text holds.
NumberIn(tok) ==
    CASE tok.k = "num" -> [ok |-> TRUE, n |-> tok.v]
      [] tok.k \in {"date", "quoted"} -> FirstNumberOf(tok.v)
      [] tok.k = "obj" ->
            LET idx == {i \in 1..Len(FieldOrder) :
                          FieldOrder[i] \in DOMAIN tok.v
                          /\ NumberInValue(tok.v[FieldOrder[i]]).ok}
            IN  IF idx = {} THEN [ok |-> FALSE, n |-> 0]
                ELSE NumberInValue(tok.v[FieldOrder[MinOf(idx)]])
      [] OTHER -> [ok |-> FALSE, n |-> 0]

\* line.replace(date, '').replace(amount, ''): the tokens that are the date or
\* the amount go; a token that holds one of them inside keeps its other text.
RemoveMatches(line, d, n) ==
    LET keep(tok) ==
            CASE tok.k = "date" ->
                    IF tok.v = d THEN <<>>
                    ELSE IF FirstNumberOf(tok.v).n = n THEN <<Tok("rest", tok.v)>>
                    ELSE <<tok>>
              [] tok.k = "num" -> IF tok.v = n THEN <<>> ELSE <<tok>>
              [] tok.k = "quoted" -> IF tok.v = d THEN <<Quoted("")>> ELSE <<tok>>
              [] tok.k = "obj" ->
                    \* the object text without the date string; without the
                    \* digits of its amount it is no JSON any more
                    IF "amount" \in DOMAIN tok.v /\ tok.v.amount.t = "num"
                       /\ tok.v.amount.v = n
                    THEN <<Tok("broken", tok.v)>>
                    ELSE IF DateIn(tok).ok /\ DateIn(tok).d = d
                    THEN <<Obj([tok.v EXCEPT !.date = JStr("")])>>
                    ELSE <<tok>>
              [] OTHER -> <<tok>>
        F[i \in 0..Len(line)] == IF i = 0 THEN <<>> ELSE F[i - 1] \o keep(line[i])
    IN  F[Len(line)]

\* One line: a transaction when it holds a date and a number. The number is
\* the first one of the line, the digits of the date included.
TransactionOfLine(line) ==
    LET dates == {i \in 1..Len(line) : DateIn(line[i]).ok}
        nums == {i \in 1..Len(line) : NumberIn(line[i]).ok}
    IN  IF line = <<>> \/ dates = {} \/ nums = {} THEN <<>>
        ELSE LET d == DateIn(line[MinOf(dates)]).d
                 n == NumberIn(line[MinOf(nums)]).n
             IN  <<[date |-> JStr(d),
                    description |-> JTxt(StripText(RemoveMatches(line, d, n))),
                    amount |-> JNum(n),
                    currency |-> JStr("USD"),
                    merchant |-> JStr("")]>>

ExtractTransactionsFromText(s) ==
    LET lines == SplitLines(s, <<>>)
        F[i \in 0..Len(lines)] ==
            IF i = 0 THEN <<>> ELSE F[i - 1] \o TransactionOfLine(lines[i])
    IN  F[Len(lines)]

-----------------------------------------------------------------------------
(* BedrockService._parse_transaction_extraction_response *)

\* Strategy 1: the text from the first '[' to the last ']', parsed strictly.
BracketScan(s) ==
    LET opens == Positions(s, {"lk"})
        closes == Positions(s, {"rk"})
    IN  IF opens # {} /\ closes # {} /\ MaxOf(closes) > MinOf(opens)
        THEN JsonLoadsArray(SubSeq(s, MinOf(opens), MaxOf(closes)))
        ELSE [ok |-> FALSE, val |-> <<>>]

RequiredKeys == {"date", "description", "amount"}

\* Strategy 2: every regex match is parsed; one match that is no JSON raises
\* JSONDecodeError out of the loop and the strategy yields nothing.
MultiObject(s) ==
    LET matches == JsonObjectMatches(s)
        objs == [i \in 1..Len(matches) |-> JsonLoadsObject(matches[i])]
        F[i \in 0..Len(matches)] ==
            IF i = 0 THEN <<>>
            ELSE IF RequiredKeys \subseteq DOMAIN objs[i].val
                 THEN Append(F[i - 1], objs[i].val) ELSE F[i - 1]
    IN  IF matches # <<>> /\ (\A i \in 1..Len(matches) : objs[i].ok)
        THEN [ok |-> TRUE, val |-> F[Len(matches)]]
        ELSE [ok |-> FALSE, val |-> <<>>]

\* Which strategy produced the candidates: 1, 2 or 3.
ExtractionStrategyOf(s) ==
    IF BracketScan(s).ok THEN 1 ELSE IF MultiObject(s).ok THEN 2 ELSE 3

Candidates(s) ==
    IF BracketScan(s).ok THEN BracketScan(s).val
    ELSE IF MultiObject(s).ok THEN MultiObject(s).val
    ELSE ExtractTransactionsFromText(s)

\* Faulty variant: the validation without the test of the amount.
ValidateTransactionKeepsZero(c, now) ==
    LET cl == CleanTransactionData(c, now) IN
    IF cl.ok /\ RequiredKeys \subseteq DOMAIN cl.val
    THEN <<[date |-> cl.val.date,
            description |-> cl.val.description,
            amount |-> cl.val.amount,
            currency |-> IF "currency" \in DOMAIN cl.val THEN cl.val.currency ELSE JStr("USD"),
            merchant |-> IF "merchant" \in DOMAIN cl.val THEN cl.val.merchant ELSE JStr("")]>>
    ELSE <<>>

\* The validation of one cleaned candidate: the three keys must be present and
\* the amount must not be zero.
ValidateTransaction(c, now) ==
    LET cl == CleanTransactionData(c, now) IN
    IF cl.ok /\ RequiredKeys \subseteq DOMAIN cl.val /\ cl.val.amount.v # 0
    THEN <<[date |-> cl.val.date,
            description |-> cl.val.description,
            amount |-> cl.val.amount,
            currency |-> IF "currency" \in DOMAIN cl.val THEN cl.val.currency ELSE JStr("USD"),
            merchant |-> IF "merchant" \in DOMAIN cl.val THEN cl.val.merchant ELSE JStr("")]>>
    ELSE <<>>

\* The loop over the candidates: the valid ones, in their order.
ValidateAll(cands, now) ==
    LET F[i \in 0..Len(cands)] ==
            IF i = 0 THEN <<>> ELSE F[i - 1] \o ValidateTransaction(cands[i], now)
    IN  F[Len(cands)]

ParseTransactionExtractionResponse(s, now) == ValidateAll(Candidates(s), now)

-----------------------------------------------------------------------------
(* The classification client: BedrockService.classify_transaction and
   BedrockService.extract_transactions_from_pdf *)

\* What one model invocation yields: a completion text, or an exception raised
\* by invoke_model or while the response body is read and decoded.
ModelText(s) == [k |-> "text", v |-> s]
ModelError(cause) == [k |-> "error", v |-> cause]
ErrorCauses == <<"API Error", "Expecting value">>

\* The safe default of classify_transaction's except branch.
Fallback(cause) ==
    [classification |-> JStr("personal"),
     confidence |-> JNum(0),
     reasoning |-> JTxt(<<Word("Error in classification:"), Word(cause)>>),
     category |-> JStr("unknown")]

\* Faulty variant: a client that lets the failure of the invocation reach its caller.
ClassifyTransactionPropagates(cancelled, outcome) ==
    IF cancelled \/ outcome.k = "error" THEN [raised |-> TRUE, called |-> ~cancelled, val |-> <<>>]
    ELSE [raised |-> FALSE, called |-> TRUE, val |-> ParseLlmResponse(outcome.v)]

\* Faulty variant: a client that checks the marker inside its try block, so
\* that a cancellation becomes the safe default.
ClassifyTransactionAbsorbsCancel(cancelled, outcome) ==
    IF cancelled
    THEN [raised |-> FALSE, called |-> FALSE, val |-> Fallback("Processing cancelled by user")]
    ELSE [raised |-> FALSE, called |-> TRUE,
          val |-> IF outcome.k = "error" THEN Fallback(outcome.v)
                  ELSE ParseLlmResponse(outcome.v)]

\* classify_transaction(transaction_data, user_id): the marker is checked
\* before the try block, so "Processing cancelled by user" reaches the caller;
\* whatever the invocation or the decoding raises becomes the safe default.
ClassifyTransaction(cancelled, outcome) ==
    IF cancelled THEN [raised |-> TRUE, called |-> FALSE, val |-> <<>>]
    ELSE [raised |-> FALSE, called |-> TRUE,
          val |-> IF outcome.k = "error" THEN Fallback(outcome.v)
                  ELSE ParseLlmResponse(outcome.v)]

\* extract_transactions_from_pdf(pdf_text, user_id).
ExtractTransactionsFromPdf(cancelled, outcome, now) ==
    IF cancelled THEN [raised |-> TRUE, called |-> FALSE, val |-> <<>>]
    ELSE [raised |-> FALSE, called |-> TRUE,
          val |-> IF outcome.k = "error" THEN <<>>
                  ELSE ParseTransactionExtractionResponse(outcome.v, now)]

-----------------------------------------------------------------------------
(* The upload pipeline: api/transactions.py upload_transactions and
   TransactionService.process_csv_upload / process_pdf_upload.

   One step per read or write of the cancellation marker; the steps between
   two of them touch only the request's own data and database session.  The
   record store is a plain one: an insert that fails adds nothing, the
   session's uncommitted records go at rollback and become durable at commit.
   pd.read_csv, PyPDF2 and the database are outside the repository: whether
   they raise is an input. *)

Users == {"u1", "u2"}
Reqs == {"r1", "r2"}
RequiredColumns == {"date", "description", "amount"}
MaxUnits == 3

File(ext, sizeOk, readable, cols, rows) ==
    [ext |-> ext, sizeOk |-> sizeOk, readable |-> readable, cols |-> cols, rows |-> rows]

\* The uploads of the model: a text file, an oversized CSV, an unreadable CSV,
\* a CSV lacking one required column, a well-formed CSV of n rows, a PDF whose
\* text can or cannot be extracted.
Files(cap) ==
    {File("txt", TRUE, TRUE, {}, 0),
     File("csv", FALSE, TRUE, RequiredColumns, 1),
     File("csv", TRUE, FALSE, {}, 0)}
    \cup {File("csv", TRUE, TRUE, RequiredColumns \ {c}, 1) : c \in RequiredColumns}
    \cup {File("csv", TRUE, TRUE, RequiredColumns, n) : n \in 0..cap}
    \cup {File("pdf", TRUE, b, {}, 0) : b \in BOOLEAN}

\* validate_file_type and validate_file_size.
ValidateFileType(f, allowed) == f.ext \in allowed
ValidateFileSize(f) == f.sizeOk

Idle ==
    [pc |-> "idle", user |-> "u1", file |-> File("csv", TRUE, TRUE, RequiredColumns, 0),
     n |-> 0, i |-> 0, errors |-> <<>>, transactions |-> <<>>,
     pending |-> {}, committed |-> {}, calls |-> <<>>, status |-> 0]

\* The replies the model gives in the pipeline: a clean classification, a
\* reply that is no JSON, and a failed invocation.
BusinessReply ==
    <<Obj([classification |-> JStr("business"), confidence |-> JNum(85),
           reasoning |-> JStr("office supplies"), category |-> JStr("office_supplies")])>>
ClassifyOutcomes ==
    <<ModelText(BusinessReply), ModelText(<<Word("invalid"), Word("json")>>),
      ModelError("API Error")>>

StatementLine(amount) ==
    Obj([date |-> JStr("2024-01-15"), description |-> JTxt(<<Word("zoom")>>),
         amount |-> JNum(amount), currency |-> JStr("gbp"), merchant |-> JStr("Zoom")])

\* A JSON array of k transactions and one zero-amount entry.
ArrayReply(k) ==
    LET F[j \in 0..k] ==
            IF j = 0 THEN <<StatementLine(0)>>
            ELSE F[j - 1] \o <<COMMA, StatementLine(-138044)>>
    IN  <<LK>> \o F[k] \o <<RK>>

ExtractOutcome(k) == IF k < 0 THEN ModelError("API Error") ELSE ModelText(ArrayReply(k))

\* What the session does in a unit: both records are added ("ok"), the add
\* and flush of the transaction record raise ("flush"), or the transaction
\* record is flushed and the classification record raises ("side").
StoreOutcomes == {"ok", "flush", "side"}

\* The two records of a unit in the store.
Records(i) == {[unit |-> i, table |-> "transactions"], [unit |-> i, table |-> "classifications"]}

\* Faulty variant: the outer except without db.rollback().
ServiceRaisesKeeping(q) == [q EXCEPT !.status = 400, !.pc = "finally"]

\* The service's outer except: rollback, re-raise; the handler's
\* "except Exception" answers 400.
ServiceRaises(q) == [q EXCEPT !.pending = {}, !.status = 400, !.pc = "finally"]

\* Faulty variant: a unit that raises leaves no trace: no error string, and the loop goes on.
UnitSkipped(q, cause) == [q EXCEPT !.i = @ + 1, !.pc = "loop"]

\* The inner except of the loop: an indexed error string, next unit.
UnitFails(q, cause) ==
    [q EXCEPT !.errors = Append(@, [unit |-> q.i, cause |-> cause]),
              !.i = @ + 1, !.pc = "loop"]

\* Faulty variant: a cancellation request that removes a marker that is already there.
RequestCancellationToggles(u) ==
    /\ marker' = [marker EXCEPT ![u] = ~@]
    /\ UNCHANGED <<up, cfg, today, reply, stage, parsed>>

\* Faulty variant: one marker for all users.
RequestCancellationForAll(u) ==
    /\ marker' = [v \in Users |-> TRUE]
    /\ UNCHANGED <<up, cfg, today, reply, stage, parsed>>

\* POST /transactions/cancel-processing: the marker file is (re)written.
RequestCancellation(u) ==
    /\ marker' = [marker EXCEPT ![u] = TRUE]
    /\ UNCHANGED <<up, cfg, today, reply, stage, parsed>>

\* upload_transactions up to the first cancellation check: file type and size.
StartUpload(r, u, f) ==
    /\ r \in cfg.reqs
    /\ up[r].pc \in {"idle", "done"}
    /\ up' = [up EXCEPT ![r] =
                IF ValidateFileType(f, cfg.allowed) /\ ValidateFileSize(f)
                THEN [Idle EXCEPT !.user = u, !.file = f, !.pc = "check1"]
                ELSE [Idle EXCEPT !.user = u, !.file = f, !.status = 400, !.pc = "finally"]]
    /\ UNCHANGED <<marker, cfg, today, reply, stage, parsed>>

\* Faulty variant: a handler that dispatches without looking at the marker.
CheckBeforeProcessingUnchecked(r) ==
    /\ up[r].pc = "check1"
    /\ up' = [up EXCEPT ![r] =
                IF @.file.ext \in {"csv", "pdf"} THEN [@ EXCEPT !.pc = "check2"]
                ELSE [@ EXCEPT !.status = 400, !.pc = "finally"]]
    /\ UNCHANGED <<marker, cfg, today, reply, stage, parsed>>

\* "Check for cancellation before processing" (os.path.exists), then the
\* dispatch on the extension.
CheckBeforeProcessing(r) ==
    /\ up[r].pc = "check1"
    /\ up' = [up EXCEPT ![r] =
                IF marker[up[r].user] THEN [@ EXCEPT !.pc = "rm1"]
                ELSE IF @.file.ext \in {"csv", "pdf"} THEN [@ EXCEPT !.pc = "check2"]
                ELSE [@ EXCEPT !.status = 400, !.pc = "finally"]]
    /\ UNCHANGED <<marker, cfg, today, reply, stage, parsed>>

\* "Check for cancellation before CSV/PDF processing".
CheckBeforeService(r) ==
    /\ up[r].pc = "check2"
    /\ up' = [up EXCEPT ![r].pc = IF marker[up[r].user] THEN "rm2" ELSE "svc"]
    /\ UNCHANGED <<marker, cfg, today, reply, stage, parsed>>

\* os.remove(cancellation_file) and raise HTTPException(499) inside the try:
\* when the file is gone by now, FileNotFoundError is answered with 400.
RemoveAndCancel(r) ==
    /\ up[r].pc \in {"rm1", "rm2", "rm3"}
    /\ marker' = [marker EXCEPT ![up[r].user] = FALSE]
    /\ up' = [up EXCEPT ![r].status = IF marker[up[r].user] THEN 499 ELSE 400,
                        ![r].pc = "finally"]
    /\ UNCHANGED <<cfg, today, reply, stage, parsed>>

\* Faulty variant: process_csv_upload without the check of the required columns.
ProcessCsvStartUnchecked(r) ==
    /\ up[r].pc = "svc" /\ up[r].file.ext = "csv"
    /\ up' = [up EXCEPT ![r] =
                IF @.file.readable
                THEN [@ EXCEPT !.n = up[r].file.rows, !.i = 1, !.pc = "loop"]
                ELSE ServiceRaises(@)]
    /\ UNCHANGED <<marker, cfg, today, reply, stage, parsed>>

\* process_csv_upload up to the loop: pd.read_csv and the required columns.
ProcessCsvStart(r) ==
    /\ up[r].pc = "svc" /\ up[r].file.ext = "csv"
    /\ up' = [up EXCEPT ![r] =
                IF @.file.readable /\ RequiredColumns \subseteq @.file.cols
                THEN [@ EXCEPT !.n = up[r].file.rows, !.i = 1, !.pc = "loop"]
                ELSE ServiceRaises(@)]
    /\ UNCHANGED <<marker, cfg, today, reply, stage, parsed>>

\* process_pdf_upload up to the loop: the text of the PDF, then one extraction
\* call; k < 0 is a failed invocation, else the model lists k transactions.
\* What the service does with the outcome e of the extraction call.
AfterExtract(q, e) ==
    IF ~q.file.readable \/ e.raised THEN ServiceRaises(q)
    ELSE [q EXCEPT !.n = Len(e.val), !.i = 1, !.calls = <<0>>, !.pc = "loop"]

ProcessPdfStart(r, k) ==
    /\ up[r].pc = "svc" /\ up[r].file.ext = "pdf"
    /\ up' = [up EXCEPT ![r] =
                AfterExtract(@, ExtractTransactionsFromPdf(marker[up[r].user], ExtractOutcome(k), today))]
    /\ UNCHANGED <<marker, cfg, today, reply, stage, parsed>>

\* Faulty variant: a loop without the check at the top of an iteration.
LoopTopUnchecked(r) ==
    /\ up[r].pc = "loop" /\ up[r].i <= up[r].n
    /\ up' = [up EXCEPT ![r].pc = "prep"]
    /\ UNCHANGED <<marker, cfg, today, reply, stage, parsed>>

\* Faulty variant: a check of the loop that consumes the marker it finds.
LoopTopConsumes(r) ==
    /\ up[r].pc = "loop" /\ up[r].i <= up[r].n
    /\ up' = [up EXCEPT ![r] =
                IF marker[up[r].user] THEN ServiceRaises(@) ELSE [@ EXCEPT !.pc = "prep"]]
    /\ marker' = [marker EXCEPT ![up[r].user] = FALSE]
    /\ UNCHANGED <<cfg, today, reply, stage, parsed>>

\* The top of an iteration: "Check for cancellation on every row".
LoopTop(r) ==
    /\ up[r].pc = "loop" /\ up[r].i <= up[r].n
    /\ up' = [up EXCEPT ![r] =
                IF marker[up[r].user] THEN ServiceRaises(@) ELSE [@ EXCEPT !.pc = "prep"]]
    /\ UNCHANGED <<marker, cfg, today, reply, stage, parsed>>

\* Inside the unit's try: the row is converted (float(row['amount']) may
\* raise), then "Check for cancellation before Bedrock API call".
PrepareUnit(r, rowOk) ==
    /\ up[r].pc = "prep"
    /\ up[r].file.ext = "pdf" => rowOk
    /\ up' = [up EXCEPT ![r] =
                IF ~rowOk THEN UnitFails(@, "row")
                ELSE IF marker[up[r].user] THEN UnitFails(@, "cancelled")
                ELSE [@ EXCEPT !.pc = "classify"]]
    /\ UNCHANGED <<marker, cfg, today, reply, stage, parsed>>

\* classify_transaction, then the two records of the unit: Transaction(...),
\* add, flush, Classification(...), add, and the entry of the output list.
\* Faulty variant: a unit whose records could not be written is classified
\* once more before it is given up.
AfterClassifyRetrying(q, c, stored) ==
    IF c.raised THEN UnitFails(q, "cancelled")
    ELSE IF stored # "ok" THEN UnitFails([q EXCEPT !.calls = @ \o <<q.i, q.i>>], "store")
    ELSE [q EXCEPT !.calls = Append(@, q.i),
                   !.pending = @ \cup Records(q.i),
                   !.transactions =
                        Append(@, [unit |-> q.i,
                                   classification |-> c.val.classification,
                                   confidence |-> c.val.confidence]),
                   !.i = @ + 1, !.pc = "loop"]

\* What the unit's try block does with the outcome c of the client's call.
AfterClassify(q, c, stored) ==
    IF c.raised THEN UnitFails(q, "cancelled")
    ELSE IF stored = "flush" THEN UnitFails([q EXCEPT !.calls = Append(@, q.i)], "store")
    ELSE IF stored = "side"
    THEN UnitFails([q EXCEPT !.calls = Append(@, q.i),
                             !.pending = @ \cup {[unit |-> q.i, table |-> "transactions"]}],
                   "side")
    ELSE [q EXCEPT !.calls = Append(@, q.i),
                   !.pending = @ \cup Records(q.i),
                   !.transactions =
                        Append(@, [unit |-> q.i,
                                   classification |-> c.val.classification,
                                   confidence |-> c.val.confidence]),
                   !.i = @ + 1, !.pc = "loop"]

ClassifyAndPersist(r, o, stored) ==
    /\ up[r].pc = "classify"
    /\ up' = [up EXCEPT ![r] =
                AfterClassify(@, ClassifyTransaction(marker[up[r].user], ClassifyOutcomes[o]), stored)]
    /\ UNCHANGED <<marker, cfg, today, reply, stage, parsed>>

\* After the loop: db.commit() and the outcome, or the outer except.
Commit(r, ok) ==
    /\ up[r].pc = "loop" /\ up[r].i > up[r].n
    /\ up' = [up EXCEPT ![r] =
                IF ok THEN [@ EXCEPT !.committed = @ \cup up[r].pending, !.pending = {},
                                     !.pc = "final"]
                ELSE ServiceRaises(@)]
    /\ UNCHANGED <<marker, cfg, today, reply, stage, parsed>>

\* "Final cancellation check", else the 200 response with the outcome.
FinalCheck(r) ==
    /\ up[r].pc = "final"
    /\ up' = [up EXCEPT ![r] =
                IF marker[up[r].user] THEN [@ EXCEPT !.pc = "rm3"]
                ELSE [@ EXCEPT !.status = 200, !.pc = "finally"]]
    /\ UNCHANGED <<marker, cfg, today, reply, stage, parsed>>

\* finally: if os.path.exists(cancellation_file) ...
Finally(r) ==
    /\ up[r].pc = "finally"
    /\ up' = [up EXCEPT ![r].pc = IF marker[up[r].user] THEN "rmf" ELSE "done"]
    /\ UNCHANGED <<marker, cfg, today, reply, stage, parsed>>

\* Faulty variant: a finally block that leaves the marker where it is.
FinallyKeeps(r) ==
    /\ up[r].pc = "rmf"
    /\ up' = [up EXCEPT ![r].pc = "done"]
    /\ UNCHANGED <<marker, cfg, today, reply, stage, parsed>>

\* ... os.remove(cancellation_file): an exception in the finally block
\* replaces the response (500).
FinallyRemove(r) ==
    /\ up[r].pc = "rmf"
    /\ marker' = [marker EXCEPT ![up[r].user] = FALSE]
    /\ up' = [up EXCEPT ![r].status = IF marker[up[r].user] THEN @ ELSE 500,
                        ![r].pc = "done"]
    /\ UNCHANGED <<cfg, today, reply, stage, parsed>>

NoReply == ModelError("")

Init ==
    /\ marker = [u \in Users |-> FALSE]
    /\ up = [r \in Reqs |-> Idle]
    /\ cfg \in {[reqs |-> {"r1"}, cap |-> MaxUnits, allowed |-> a] :
                    a \in {{"csv"}, {"csv", "pdf", "txt"}}}
    /\ today = "2026-11-05"
    /\ reply = NoReply /\ stage = "off" /\ parsed = <<>>

Next ==
    \/ \E u \in Users : RequestCancellation(u)
    \/ \E r \in Reqs, u \in Users, f \in Files(cfg.cap) : StartUpload(r, u, f)
    \/ \E r \in Reqs : CheckBeforeProcessing(r)
    \/ \E r \in Reqs : CheckBeforeService(r)
    \/ \E r \in Reqs : RemoveAndCancel(r)
    \/ \E r \in Reqs : ProcessCsvStart(r)
    \/ \E r \in Reqs, k \in -1..cfg.cap : ProcessPdfStart(r, k)
    \/ \E r \in Reqs : LoopTop(r)
    \/ \E r \in Reqs, rowOk \in BOOLEAN : PrepareUnit(r, rowOk)
    \/ \E r \in Reqs, o \in 1..Len(ClassifyOutcomes), stored \in StoreOutcomes :
            ClassifyAndPersist(r, o, stored)
    \/ \E r \in Reqs, ok \in BOOLEAN : Commit(r, ok)
    \/ \E r \in Reqs : FinalCheck(r)
    \/ \E r \in Reqs : Finally(r)
    \/ \E r \in Reqs : FinallyRemove(r)

Spec == Init /\ [][Next]_vars

-----------------------------------------------------------------------------
(* The uploads of a deployment in which nobody requests a cancellation: no
   marker is ever created, so the steps that remove one are never reached. *)

NextUncancelled ==
    \/ \E r \in Reqs, u \in Users, f \in Files(cfg.cap) : StartUpload(r, u, f)
    \/ \E r \in Reqs : CheckBeforeProcessing(r)
    \/ \E r \in Reqs : CheckBeforeService(r)
    \/ \E r \in Reqs : ProcessCsvStart(r)
    \/ \E r \in Reqs, k \in -1..cfg.cap : ProcessPdfStart(r, k)
    \/ \E r \in Reqs : LoopTop(r)
    \/ \E r \in Reqs, rowOk \in BOOLEAN : PrepareUnit(r, rowOk)
    \/ \E r \in Reqs, o \in 1..Len(ClassifyOutcomes), stored \in StoreOutcomes :
            ClassifyAndPersist(r, o, stored)
    \/ \E r \in Reqs, ok \in BOOLEAN : Commit(r, ok)
    \/ \E r \in Reqs : FinalCheck(r)
    \/ \E r \in Reqs : Finally(r)

SpecUncancelled == Init /\ [][NextUncancelled]_vars

-----------------------------------------------------------------------------
(* Two requests in flight, one per user: r1 is an upload of u1 and r2 one of
   u2, each of a well-formed CSV or of a PDF, of at most MaxConcurrentUnits
   units.  The handlers' steps interleave freely with each other and with the
   cancellation requests of both users. *)

MaxConcurrentUnits == 1

UserOf == [r \in Reqs |-> IF r = "r1" THEN "u1" ELSE "u2"]

ConcurrentFiles(cap) ==
    {File("csv", TRUE, TRUE, RequiredColumns, n) : n \in 1..cap}
        \cup {File("pdf", TRUE, TRUE, {}, 0)}

InitMulti ==
    /\ marker = [u \in Users |-> FALSE]
    /\ up = [r \in Reqs |-> Idle]
    /\ cfg = [reqs |-> Reqs, cap |-> MaxConcurrentUnits, allowed |-> {"csv", "pdf"}]
    /\ today = "2026-11-05"
    /\ reply = NoReply /\ stage = "off" /\ parsed = <<>>

NextMulti ==
    \/ \E u \in Users : RequestCancellation(u)
    \/ \E r \in Reqs, f \in ConcurrentFiles(cfg.cap) : StartUpload(r, UserOf[r], f)
    \/ \E r \in Reqs : CheckBeforeProcessing(r)
    \/ \E r \in Reqs : CheckBeforeService(r)
    \/ \E r \in Reqs : RemoveAndCancel(r)
    \/ \E r \in Reqs : ProcessCsvStart(r)
    \/ \E r \in Reqs, k \in -1..cfg.cap : ProcessPdfStart(r, k)
    \/ \E r \in Reqs : LoopTop(r)
    \/ \E r \in Reqs, rowOk \in BOOLEAN : PrepareUnit(r, rowOk)
    \/ \E r \in Reqs, o \in 1..Len(ClassifyOutcomes), stored \in StoreOutcomes :
            ClassifyAndPersist(r, o, stored)
    \/ \E r \in Reqs, ok \in BOOLEAN : Commit(r, ok)
    \/ \E r \in Reqs : FinalCheck(r)
    \/ \E r \in Reqs : Finally(r)
    \/ \E r \in Reqs : FinallyRemove(r)

SpecMulti == InitMulti /\ [][NextMulti]_vars

-----------------------------------------------------------------------------
(* Two requests of one user in flight: both uploads read and remove the same
   marker, and their steps interleave freely. *)

NextSameUser ==
    \/ \E u \in Users : RequestCancellation(u)
    \/ \E r \in Reqs, f \in ConcurrentFiles(cfg.cap) : StartUpload(r, "u1", f)
    \/ \E r \in Reqs : CheckBeforeProcessing(r)
    \/ \E r \in Reqs : CheckBeforeService(r)
    \/ \E r \in Reqs : RemoveAndCancel(r)
    \/ \E r \in Reqs : ProcessCsvStart(r)
    \/ \E r \in Reqs, k \in -1..cfg.cap : ProcessPdfStart(r, k)
    \/ \E r \in Reqs : LoopTop(r)
    \/ \E r \in Reqs, rowOk \in BOOLEAN : PrepareUnit(r, rowOk)
    \/ \E r \in Reqs, o \in 1..Len(ClassifyOutcomes), stored \in StoreOutcomes :
            ClassifyAndPersist(r, o, stored)
    \/ \E r \in Reqs, ok \in BOOLEAN : Commit(r, ok)
    \/ \E r \in Reqs : FinalCheck(r)
    \/ \E r \in Reqs : Finally(r)
    \/ \E r \in Reqs : FinallyRemove(r)

SpecSameUser == InitMulti /\ [][NextSameUser]_vars

-----------------------------------------------------------------------------
(* The client on its own: one caller (user u1) hands a transaction or a
   statement text to the client; the model's answer is any short text over an
   alphabet of reply fragments, or a failed invocation. *)

MaxReplyLen == 3

\* Fragments of classification replies.
ClassifyAlphabet ==
    <<Obj([classification |-> JStr("business"), confidence |-> JNum(85),
           reasoning |-> JStr("office supplies"), category |-> JStr("office_supplies")]),
      Obj([classification |-> JStr("maybe"), confidence |-> JNum(700)]),
      Obj([classification |-> JStr("business")]),
      LB, RB, NL,
      Quoted("personal"), Word("business"), Word("invalid"), Word("confidence"), Word("reasoning"),
      Word("category"), Num(95), Num(9500), DateTok("2024-01-15")>>

\* Fragments of extraction replies.
ExtractAlphabet ==
    <<StatementLine(-138044), StatementLine(0),
      Obj([date |-> JStr("2024-01-15"), description |-> JStr(""), amount |-> JNum(500)]),
      Obj([date |-> JStr("15/01/2024"), description |-> JTxt(<<Word("rent")>>),
           amount |-> JStr("$1,380.44")]),
      Obj([date |-> JStr("2024-01-15"), description |-> JTxt(<<Word("fee")>>),
           amount |-> JStr("n/a")]),
      Obj([date |-> JStr("2024-01-15"), description |-> JTxt(<<Word("fee")>>),
           amount |-> JBool(TRUE)]),
      LK, RK, COMMA, NL, LB, RB,
      DateTok("2024-01-15"), Num(-4550), Word("zoom")>>

\* The text of a JSON array of the given elements.
JsonArray(elems) ==
    LET F[j \in 1..Len(elems)] ==
            IF j = 1 THEN <<elems[1]>> ELSE F[j - 1] \o <<COMMA, elems[j]>>
    IN  <<LK>> \o F[Len(elems)] \o <<RK>>

NoUploads == [reqs |-> {}, cap |-> 0, allowed |-> {}]

InitClient ==
    /\ marker = [u \in Users |-> FALSE]
    /\ up = [r \in Reqs |-> Idle]
    /\ cfg = NoUploads
    /\ today = "2026-11-05"
    /\ parsed = <<>>
    /\ \/ /\ stage = "classify"
          /\ \/ \E c \in 1..Len(ErrorCauses) : reply = ModelError(ErrorCauses[c])
             \/ \E n \in 0..MaxReplyLen :
                  \E f \in [1..n -> 1..Len(ClassifyAlphabet)] :
                      reply = ModelText([i \in 1..n |-> ClassifyAlphabet[f[i]]])
       \/ /\ stage = "extract"
          /\ \/ \E c \in 1..Len(ErrorCauses) : reply = ModelError(ErrorCauses[c])
             \/ \E n \in 0..MaxReplyLen :
                  \E f \in [1..n -> 1..Len(ExtractAlphabet)] :
                      reply = ModelText([i \in 1..n |-> ExtractAlphabet[f[i]]])
             \/ \E n \in 2..MaxReplyLen :
                  \E f \in [1..n -> Positions(ExtractAlphabet, {"obj"})] :
                      reply = ModelText(JsonArray([i \in 1..n |-> ExtractAlphabet[f[i]]]))

\* bedrock_service.classify_transaction(transaction_data, "u1")
ClassifyCall ==
    /\ stage \in {"classify", "classified"}
    /\ parsed' = ClassifyTransaction(marker["u1"], reply)
    /\ stage' = "classified"
    /\ UNCHANGED <<marker, up, cfg, today, reply>>

\* bedrock_service.extract_transactions_from_pdf(pdf_text, "u1")
ExtractCall ==
    /\ stage \in {"extract", "extracted"}
    /\ parsed' = ExtractTransactionsFromPdf(marker["u1"], reply, today)
    /\ stage' = "extracted"
    /\ UNCHANGED <<marker, up, cfg, today, reply>>

\* Midnight passes while a statement is with the client.
Tick ==
    /\ stage \in {"extract", "extracted"}
    /\ today = "2026-11-05"
    /\ today' = "2026-11-06"
    /\ UNCHANGED <<marker, up, cfg, reply, stage, parsed>>

NextClient ==
    \/ RequestCancellation("u1")
    \/ Tick
    \/ ClassifyCall
    \/ ExtractCall

SpecClient == InitClient /\ [][NextClient]_vars

-----------------------------------------------------------------------------
(* Properties of the response parsers and of the client (SpecClient) *)

\* C1 (as stated): every result of _parse_llm_response, whichever strategy
\* produced it, has classification "business" or "personal" and a confidence
\* between 0.0 and 1.0.
C1_ClassificationAndConfidenceInRange ==
    (stage = "classified" /\ reply.k = "text" /\ ~parsed.raised) =>
        /\ parsed.val.classification.t = "str"
        /\ parsed.val.classification.v \in {"business", "personal"}
        /\ parsed.val.confidence.t = "num"
        /\ parsed.val.confidence.v >= 0
        /\ parsed.val.confidence.v <= 100

\* C2 (as stated): every transaction _parse_transaction_extraction_response
\* returns has a non-zero amount, a date of the shape YYYY-MM-DD and a
\* non-empty description.
C2_ExtractedTransactionsWellFormed ==
    (stage = "extracted" /\ reply.k = "text" /\ ~parsed.raised) =>
        \A i \in 1..Len(parsed.val) :
            /\ parsed.val[i].amount.v # 0
            /\ IsoShaped(parsed.val[i].date.v)
            /\ parsed.val[i].description.v # <<>>

\* C10: when the model invocation fails, classify_transaction returns the safe
\* default {personal, 0.0, "Error in classification: <cause>", unknown} and
\* extract_transactions_from_pdf returns the empty list; the only exception a
\* caller sees is the cancellation of a user whose marker is set.
C10_ClientNeverPropagatesModelFailure ==
    /\ stage \in {"classified", "extracted"} => (parsed.raised => marker["u1"])
    /\ (stage = "classified" /\ reply.k = "error" /\ ~parsed.raised) =>
            /\ parsed.val.classification = JStr("personal")
            /\ parsed.val.confidence = JNum(0)
            /\ parsed.val.category = JStr("unknown")
            /\ parsed.val.reasoning.v =
                    <<Word("Error in classification:"), Word(reply.v)>>
            /\ DOMAIN parsed.val = RequiredFields
    /\ (stage = "extracted" /\ reply.k = "error" /\ ~parsed.raised) => parsed.val = <<>>

\* C10 witness: both calls have returned normally from a failed invocation.
C10_Witness_Classify ==
    stage = "classified" /\ reply.k = "error" /\ ~parsed.raised /\ reply.v = "API Error"

-----------------------------------------------------------------------------
(* Properties of the upload pipeline (Spec) *)

Returned(q) == q.pc = "done"
InService(q) == q.pc \in {"loop", "prep", "classify"}
Units(seq) == {seq[j].unit : j \in 1..Len(seq)}
Ascending(seq) == \A j \in 1..(Len(seq) - 1) : seq[j].unit < seq[j + 1].unit

\* The errors and the output list account for every unit handled so far, each
\* once and in order; a completed upload counts the units that did not raise.
C3_Accounting(q) ==
    (InService(q) \/ q.pc \in {"final", "rm3"} \/ q.status = 200) =>
        /\ q.status \in {0, 200}
        /\ Units(q.errors) \cup Units(q.transactions) = 1..(q.i - 1)
        /\ Units(q.errors) \cap Units(q.transactions) = {}
        /\ Ascending(q.errors) /\ Ascending(q.transactions)
        /\ Len(q.errors) + Len(q.transactions) = q.i - 1
        /\ ~InService(q) => q.i = q.n + 1

\* The step that ends unit i: either one error naming i and nothing else, or
\* one output entry for i and its two records; the loop continues with i + 1.
C3_UnitStep(q, q2) ==
    (q.pc \in {"prep", "classify"} /\ q2.pc # q.pc /\ q2.pc # "classify") =>
        /\ q2.pc = "loop" /\ q2.status = 0 /\ q2.i = q.i + 1 /\ q2.n = q.n
        /\ \/ /\ Len(q2.errors) = Len(q.errors) + 1
              /\ SubSeq(q2.errors, 1, Len(q.errors)) = q.errors
              /\ q2.errors[Len(q2.errors)].unit = q.i
              /\ q2.transactions = q.transactions
           \/ /\ q2.errors = q.errors
              /\ Len(q2.transactions) = Len(q.transactions) + 1
              /\ SubSeq(q2.transactions, 1, Len(q.transactions)) = q.transactions
              /\ q2.transactions[Len(q2.transactions)].unit = q.i
              /\ q2.pending = q.pending \cup Records(q.i)

\* C3: a unit whose classification or persistence raises does not abort the
\* upload: exactly one error with its 1-based index is appended, the unit is
\* absent from the output list, the other units are processed in order, and
\* the completed upload has processed_count = number of units that did not raise.
C3_UnitFailureIsLocal ==
    /\ [](\A r \in Reqs : C3_Accounting(up[r]))
    /\ [][\A r \in Reqs : C3_UnitStep(up[r], up'[r])]_vars

\* C3 witness: unit 2 of 3 raised in the store, no cancellation anywhere, and
\* the upload completed with units 1 and 3.
C3_Witness_MiddleUnitRaised ==
    \E r \in Reqs :
        /\ up[r].status = 200 /\ up[r].n = 3
        /\ up[r].errors = <<[unit |-> 2, cause |-> "store"]>>
        /\ Units(up[r].transactions) = {1, 3}
        /\ \A u \in Users : ~marker[u]

\* An unsupported file type, or a CSV without the three required columns.
StructurallyInvalid(f) ==
    \/ f.ext \notin {"csv", "pdf"}
    \/ ~ValidateFileType(f, cfg.allowed)
    \/ f.ext = "csv" /\ ~(RequiredColumns \subseteq f.cols)

NothingProcessed(q) ==
    /\ q.calls = <<>> /\ q.i = 0
    /\ q.errors = <<>> /\ q.transactions = <<>>
    /\ q.pending = {} /\ q.committed = {}

\* C4 (as stated): a structurally invalid upload ends with InvalidInput (400),
\* before any model call, with no record persisted and no unit processed.
C4_InvalidUploadIs400 ==
    \A r \in Reqs :
        (StructurallyInvalid(up[r].file) /\ Returned(up[r])) =>
            up[r].status = 400 /\ NothingProcessed(up[r])

\* C4 (amended): a structurally invalid upload fails as a whole, with no model
\* call, no record persisted and no unit processed; its status is InvalidInput
\* (400), or Cancelled (499) when one of the handler's checks before the
\* service finds the user's marker set.
C4_InvalidUploadFailsWhole ==
    /\ [](\A r \in Reqs :
            (StructurallyInvalid(up[r].file) /\ up[r].pc # "idle") =>
                /\ NothingProcessed(up[r])
                /\ up[r].status \in {0, 400, 499}
                /\ Returned(up[r]) => up[r].status # 0)
    /\ [][\A r \in Reqs :
            (StructurallyInvalid(up[r].file) /\ up[r].status = 0 /\ up'[r].status = 499) =>
                (marker[up[r].user] /\ up[r].pc \in {"rm1", "rm2"})]_vars

\* C4 witness: a CSV without its amount column was refused by the service.
C4_Witness_MissingColumn ==
    \E r \in Reqs :
        /\ Returned(up[r]) /\ up[r].status = 400 /\ up[r].file.ext = "csv"
        /\ up[r].file.readable /\ up[r].file.cols = {"date", "description"}
        /\ "csv" \in cfg.allowed

\* C5 (as stated): a cancellation found by a check of the per-unit loop aborts
\* the upload; it is never recorded as the error of a unit.
C5_CancellationIsNeverAUnitError ==
    \A r \in Reqs : \A j \in 1..Len(up[r].errors) : up[r].errors[j].cause # "cancelled"

AtCheckpoint(q) ==
    \/ q.pc \in {"check1", "check2", "final"}
    \/ q.pc = "loop" /\ q.i <= q.n

\* C7 (as stated): an upload stopped by a cancellation check ends with 499,
\* never with 400, and returns no results.
C7_CancelledIs499 ==
    [][\A r \in Reqs :
        (AtCheckpoint(up[r]) /\ marker[up[r].user] /\ up'[r] # up[r]) =>
            up'[r].status \notin {200, 400}]_vars

\* C8: at the moment an upload request returns, on whichever path, the
\* marker of its user is absent.
C8_MarkerClearedOnReturn ==
    [][\A r \in Reqs :
        (~Returned(up[r]) /\ Returned(up'[r])) => ~marker'[up[r].user]]_vars

\* C8 witness: a cancellation arrived inside the service loop, the service
\* failed, and the request returned with the marker gone.
C8_Witness_ClearedAfterServiceFailure ==
    \E r \in Reqs :
        /\ Returned(up[r]) /\ up[r].status = 400 /\ ~marker[up[r].user]
        /\ \E j \in 1..Len(up[r].errors) : up[r].errors[j].cause = "cancelled"

\* clear(u), as the handler does it: remove the marker, or find it absent.
Clears(r) ==
    \/ RemoveAndCancel(r)
    \/ FinallyRemove(r)
    \/ Finally(r) /\ ~marker[up[r].user]

\* C9: right after requestCancellation(u) the marker of u is set, also when it
\* was set before; right after clear(u) it is absent, also when it was absent.
C9_RequestSetsClearRemoves ==
    [][/\ \A u \in Users : RequestCancellation(u) => marker'[u]
       /\ \A r \in Reqs : Clears(r) => ~marker'[up[r].user]]_vars

\* C9 witness: requested, cleared by the handler (499), requested again.
C9_Witness_RequestedAgainAfterClear ==
    \E r \in Reqs : Returned(up[r]) /\ up[r].status = 499 /\ marker[up[r].user]

-----------------------------------------------------------------------------
(* Further properties of the response parsers (SpecClient) *)

\* A classification call that returned what the parser made of a reply text.
Classified == stage = "classified" /\ reply.k = "text" /\ ~parsed.raised

\* C11 (as stated): a reply with no parseable JSON object gives the safe
\* default: personal, confidence 0.0, category unknown, and a reasoning that
\* reports the parse failure.
C11_GarbageGivesSafeDefault ==
    (Classified /\ StrategyOf(reply.v) = 3) =>
        /\ parsed.val.classification.t = "str" /\ parsed.val.classification.v = "personal"
        /\ parsed.val.confidence.t = "num" /\ parsed.val.confidence.v = 0
        /\ parsed.val.category.t = "str" /\ parsed.val.category.v = "unknown"
        /\ parsed.val.reasoning.t = "str" => parsed.val.reasoning.v # "Extracted from text analysis"

\* C12: when the text from the first '{' to the last '}' is a JSON object,
\* each of the four fields the object has is returned as it is, and each one
\* it lacks gets its default: confidence 0.0, the three others "unknown".
C12_StrategyOneFieldsAndDefaults ==
    (Classified /\ BraceScan(reply.v).ok) =>
        LET obj == BraceScan(reply.v).val IN
        /\ RequiredFields \subseteq DOMAIN parsed.val
        /\ \A f \in RequiredFields :
                IF f \in DOMAIN obj THEN parsed.val[f] = obj[f]
                ELSE IF f = "confidence" THEN parsed.val[f] = JNum(0)
                ELSE parsed.val[f] = JStr("unknown")

\* C12 witness: {"classification": "business"} between two words of prose
\* gave {business, 0.0, "unknown", "unknown"}.
C12_Witness_BusinessInProse ==
    /\ Classified
    /\ Len(reply.v) = 3
    /\ reply.v[1].k = "word" /\ reply.v[2].k = "obj" /\ reply.v[3].k = "word"
    /\ DOMAIN reply.v[2].v = {"classification"}
    /\ parsed.val = [classification |-> JStr("business"), confidence |-> JNum(0),
                     reasoning |-> JStr("unknown"), category |-> JStr("unknown")]

\* The candidate list with the amount of candidate i set to zero.
ZeroAt(cands, i) == [cands EXCEPT ![i] = [f \in DOMAIN @ |-> IF f = "amount" THEN JNum(0) ELSE @[f]]]

\* Candidate i is an object whose amount is a number other than zero.
HasNonZeroAmount(c) ==
    /\ IsDict(c) /\ "amount" \in DOMAIN c
    /\ CleanAmount(c.amount).ok /\ CleanAmount(c.amount).val.v # 0

\* C13: a candidate whose amount is zero is dropped and nothing else changes:
\* against the same list with a non-zero amount in that candidate, the result
\* is the same transactions in the same order without that candidate's, one
\* fewer when the candidate is otherwise valid.
C13_ZeroAmountDropsExactlyThatOne ==
    (stage = "extracted" /\ reply.k = "text") =>
        LET c == Candidates(reply.v) IN
        \A i \in 1..Len(c) :
            HasNonZeroAmount(c[i]) =>
                LET zero == ValidateAll(ZeroAt(c, i), today)
                    full == ValidateAll(c, today)
                    before == ValidateAll(SubSeq(c, 1, i - 1), today)
                    after == ValidateAll(SubSeq(c, i + 1, Len(c)), today)
                IN  /\ zero = before \o after
                    /\ ValidateTransaction(c[i], today) # <<>> =>
                            /\ Len(zero) = Len(full) - 1
                            /\ full = before \o ValidateTransaction(c[i], today) \o after

\* C13 witness: an array of three valid candidates was parsed into three
\* transactions, and the same array with a zero amount in the middle into two.
C13_Witness_ThreeCandidates ==
    /\ stage = "extracted" /\ reply.k = "text" /\ ~parsed.raised
    /\ Len(Candidates(reply.v)) = 3 /\ Len(parsed.val) = 3
    /\ ExtractionStrategyOf(reply.v) = 1
    /\ Len(ValidateAll(ZeroAt(Candidates(reply.v), 2), today)) = 2

\* C14: both parsers are functions of the reply text alone: parsing the same
\* text again, at any later moment, gives the same output.
C14_ParsingIsDeterministic ==
    [][(/\ reply.k = "text" /\ reply' = reply
        /\ stage \in {"classified", "extracted"} /\ stage' = stage
        /\ ~parsed.raised /\ ~parsed'.raised)
            => parsed'.val = parsed.val]_vars

-----------------------------------------------------------------------------
(* Further properties of the upload pipeline (Spec) *)

\* A file the handler and the service accept: supported and allowed type,
\* allowed size, readable, and for a CSV the three required columns.
StructurallyValid(f) ==
    ~StructurallyInvalid(f) /\ f.readable /\ ValidateFileSize(f)

\* C15: an upload of a structurally valid file, for whose user no cancellation
\* is requested, returns a 2xx status, whatever fails in the model, in a unit
\* or in the record store.
C15_ValidUncancelledUploadIs2xx ==
    \A r \in Reqs :
        (Returned(up[r]) /\ StructurallyValid(up[r].file) /\ ~marker[up[r].user]) =>
            up[r].status \in 200..299

\* The transaction records among a set of records.
TransactionRecords(recs) == {x \in recs : x.table = "transactions"}

\* C16: when an upload completes, processed_count, the length of its
\* transactions list, is the number of transaction records the upload
\* persisted; a unit reported in errors has no record in the store.
C16_CountMatchesPersisted ==
    \A r \in Reqs :
        /\ up[r].status = 200 =>
                /\ Cardinality(TransactionRecords(up[r].committed)) = Len(up[r].transactions)
                /\ {x.unit : x \in TransactionRecords(up[r].committed)} = Units(up[r].transactions)
                /\ up[r].pending = {}
        /\ \A j \in 1..Len(up[r].errors) :
                \A x \in up[r].pending \cup up[r].committed : x.unit # up[r].errors[j].unit

-----------------------------------------------------------------------------
(* The client and the cancellation marker (SpecClient) *)

\* C17: classify_transaction called for a user whose marker is set issues no
\* model request and raises (it does not return the safe default); called
\* with the marker absent it issues the model request and returns.
C17_CancelledClassifyIssuesNoRequest ==
    [][ClassifyCall =>
        /\ marker["u1"] => (parsed'.raised /\ ~parsed'.called)
        /\ ~marker["u1"] => (~parsed'.raised /\ parsed'.called)]_vars

\* C17 witness: a classification was called with the marker set, after one
\* that was called without it: it raised and made no request.
C17_Witness_RaisedWithoutRequest ==
    stage = "classified" /\ marker["u1"] /\ parsed.raised /\ ~parsed.called

-----------------------------------------------------------------------------
(* The cancellation marker under concurrent uploads (SpecMulti) *)

\* A step of an upload that a cancellation check decided: the handler goes to
\* remove the marker and answer 499, the service raises at the top of an
\* iteration, or the unit is reported with the cancellation as its error.
StoppedByCancellation(q, q2) ==
    \/ q.pc \in {"check1", "check2", "final"} /\ q2.pc \in {"rm1", "rm2", "rm3"}
    \/ q.pc = "loop" /\ q.i <= q.n /\ q2.status = 400
    \/ /\ q.pc \in {"prep", "classify"} /\ Len(q2.errors) = Len(q.errors) + 1
       /\ q2.errors[Len(q2.errors)].cause = "cancelled"

\* C18: cancellation is per user: requestCancellation(u) and clear(u) leave
\* the marker of every other user as it was and touch no other upload, and an
\* upload is stopped by a cancellation check only when the marker of its own
\* user is set, whatever the other user's requests and uploads do meanwhile.
C18_CancellationIsPerUser ==
    [][/\ \A u \in Users :
            RequestCancellation(u) =>
                /\ \A v \in Users \ {u} : marker'[v] = marker[v]
                /\ up' = up
       /\ \A r \in Reqs :
            Clears(r) =>
                /\ \A v \in Users \ {up[r].user} : marker'[v] = marker[v]
                /\ \A r2 \in Reqs \ {r} : up'[r2] = up[r2]
       /\ \A r \in Reqs :
            up'[r] # up[r] =>
                /\ \A v \in Users \ {up[r].user} : marker'[v] = marker[v]
                /\ \A r2 \in Reqs \ {r} : up'[r2] = up[r2]
                /\ StoppedByCancellation(up[r], up'[r]) => marker[up[r].user]]_vars

\* C18 witness: u1 requested a cancellation and its upload ended with 499,
\* while the upload of u2 completed with a classified unit.
C18_Witness_OtherUploadCompletes ==
    /\ up["r1"].user = "u1" /\ Returned(up["r1"]) /\ up["r1"].status = 499
    /\ up["r2"].user = "u2" /\ Returned(up["r2"]) /\ up["r2"].status = 200
    /\ Len(up["r2"].transactions) >= 1 /\ up["r2"].errors = <<>>

-----------------------------------------------------------------------------
(* The marker and its readers (Spec) *)

\* isCancelled(user), wherever the handler, the service and the client call it.
ChecksMarker(r) ==
    \/ CheckBeforeProcessing(r)
    \/ CheckBeforeService(r)
    \/ LoopTop(r)
    \/ \E rowOk \in BOOLEAN : PrepareUnit(r, rowOk)
    \/ \E o \in 1..Len(ClassifyOutcomes), stored \in StoreOutcomes : ClassifyAndPersist(r, o, stored)
    \/ FinalCheck(r)
    \/ Finally(r)

\* C19: isCancelled is an existence check: a step that reads the marker leaves
\* every marker as it is; a marker that is set stays set until a step of an
\* upload of its user removes it, and is created by a request only.
C19_CheckNeverChangesMarker ==
    [][/\ \A r \in Reqs : ChecksMarker(r) => marker' = marker
       /\ \A u \in Users :
            /\ (marker[u] /\ ~marker'[u]) =>
                    \E r \in Reqs : up[r].user = u /\ (RemoveAndCancel(r) \/ FinallyRemove(r))
            /\ (~marker[u] /\ marker'[u]) => RequestCancellation(u)]_vars

\* C19 witness: the check before the model call found the marker, the unit was
\* reported, and the marker is still there for the next check.
C19_Witness_StillSetAfterCheck ==
    \E r \in Reqs :
        /\ up[r].pc = "loop" /\ up[r].errors # <<>>
        /\ up[r].errors[Len(up[r].errors)].cause = "cancelled"
        /\ marker[up[r].user]

\* C20: a cancellation requested while the user's one upload is in its loop
\* is effective for the later units: the marker stays until that upload
\* leaves the service, an iteration that starts with the marker set ends the
\* loop, and no step taken with the marker set issues a model call.
C20_NoModelCallAfterCancellation ==
    [][\A r \in Reqs :
        (InService(up[r]) /\ marker[up[r].user]) =>
            /\ marker'[up[r].user]
            /\ up'[r].calls = up[r].calls
            /\ up'[r].transactions = up[r].transactions
            /\ up[r].pc = "loop" /\ up[r].i <= up[r].n /\ up'[r] # up[r] =>
                    /\ up'[r].pc = "finally" /\ up'[r].status = 400
                    /\ up'[r].i = up[r].i]_vars

\* C20 witness: the marker appeared after unit 1 of 3 was classified; the
\* iteration of unit 2 ended the loop, and no call was made for units 2 and 3.
C20_Witness_StoppedAfterFirstUnit ==
    \E r \in Reqs :
        /\ up[r].status = 400 /\ up[r].pc = "finally" /\ marker[up[r].user]
        /\ up[r].file.ext = "csv" /\ up[r].n = 3 /\ up[r].i = 2
        /\ up[r].calls = <<1>> /\ up[r].errors = <<>>

-----------------------------------------------------------------------------
(* Further properties of the extraction parser (SpecClient) *)

\* An extraction call that returned what the parser made of a reply text.
Extracted == stage = "extracted" /\ reply.k = "text" /\ ~parsed.raised

\* The regex matches of a reply that parse as objects with the three keys.
GoodMatches(s) ==
    {i \in 1..Len(JsonObjectMatches(s)) :
        /\ JsonLoadsObject(JsonObjectMatches(s)[i]).ok
        /\ RequiredKeys \subseteq DOMAIN JsonLoadsObject(JsonObjectMatches(s)[i]).val}

\* C21: in strategy 2 every match is parsed on its own: a match that is no
\* JSON is skipped, and every match that parses and has date, description and
\* amount is kept as a candidate.
C21_BadMatchSkippedOthersKept ==
    (Extracted /\ ~BracketScan(reply.v).ok /\ GoodMatches(reply.v) # {}) =>
        /\ ExtractionStrategyOf(reply.v) = 2
        /\ Len(Candidates(reply.v)) = Cardinality(GoodMatches(reply.v))

\* An amount that cannot be parsed: a string that is no number once ',', '$',
\* the pound and the euro sign are gone, or a value that is neither a number
\* nor a string.
UnparseableAmount(v) ==
    \/ v.t = "str" /\ ~FloatOfAmountString(v.v).ok
    \/ v.t \notin {"num", "str"}

\* C22: a candidate whose amount cannot be parsed is dropped, never defaulted,
\* and the other candidates of the reply are returned as without it, in order.
C22_UnparseableAmountDropsCandidate ==
    Extracted =>
        LET c == Candidates(reply.v) IN
        /\ Len(parsed.val) = Len(ValidateAll(c, today))
        /\ \A i \in 1..Len(c) :
            (IsDict(c[i]) /\ "amount" \in DOMAIN c[i] /\ UnparseableAmount(c[i].amount)) =>
                /\ ValidateTransaction(c[i], today) = <<>>
                /\ ValidateAll(c, today) = ValidateAll(SubSeq(c, 1, i - 1), today)
                                    \o ValidateAll(SubSeq(c, i + 1, Len(c)), today)

-----------------------------------------------------------------------------
(* Further properties of the record store (Spec) *)

\* C23: the transaction record and the classification record of a unit are
\* persisted as one: after an upload completes, every transaction record it
\* persisted has its classification record, also when a failure occurred
\* between the two adds of some unit.
C23_TransactionHasItsClassification ==
    \A r \in Reqs :
        up[r].status = 200 =>
            \A x \in TransactionRecords(up[r].committed) :
                [unit |-> x.unit, table |-> "classifications"] \in up[r].committed

-----------------------------------------------------------------------------
(* The model requests of an upload (Spec) *)

\* The requests of an upload so far: 0 is the extraction request, u > 0 the
\* classification request of unit u.
C24_CallsInOrder(q) ==
    /\ \A j, k \in 1..Len(q.calls) : j < k => q.calls[j] < q.calls[k]
    /\ \A j \in 1..Len(q.calls) : q.calls[j] \in 0..q.n /\ q.calls[j] <= q.i
    /\ q.file.ext = "csv" => \A j \in 1..Len(q.calls) : q.calls[j] # 0
    /\ (q.file.ext = "pdf" /\ (InService(q) \/ q.status = 200)) =>
            q.calls # <<>> /\ q.calls[1] = 0

\* C24: model calls are single-attempt and sequential: a PDF upload issues one
\* extraction request, before any classification request; every unit has at
\* most one classification request; a step issues at most one request, the
\* one of the unit the loop is at, so the requests are in unit order.
C24_SingleAttemptSequential ==
    /\ [](\A r \in Reqs : C24_CallsInOrder(up[r]))
    /\ [][\A r \in Reqs :
            \/ up'[r].calls = up[r].calls
            \/ up[r].pc = "classify" /\ up'[r].calls = Append(up[r].calls, up[r].i)
            \/ up[r].pc = "svc" /\ up[r].calls = <<>> /\ up'[r].calls = <<0>>
            \/ up[r].pc \in {"idle", "done"} /\ up'[r].calls = <<>>]_vars

\* C24 witness: a PDF upload completed after the extraction request and the
\* classification requests of units 1 and 2, the second of which failed in
\* the store and was not repeated.
C24_Witness_PdfThreeRequests ==
    \E r \in Reqs :
        /\ up[r].status = 200 /\ up[r].file.ext = "pdf"
        /\ up[r].calls = <<0, 1, 2>>
        /\ up[r].errors = <<[unit |-> 2, cause |-> "store"]>>

\* The outcomes of a classification request that are a transport failure or a
\* reply that holds no JSON object.
FailedOutcomes ==
    {o \in 1..Len(ClassifyOutcomes) :
        \/ ClassifyOutcomes[o].k = "error"
        \/ ClassifyOutcomes[o].k = "text" /\ StrategyOf(ClassifyOutcomes[o].v) = 3}

\* C25: a transport failure or an unparseable reply for a unit is no error of
\* the unit: the unit is persisted and listed with the safe default (personal,
\* confidence 0.0), and errors gains no entry.
C25_FailedCallGivesSafeDefaultUnit ==
    [][\A r \in Reqs : \A o \in FailedOutcomes :
        (~marker[up[r].user] /\ ClassifyAndPersist(r, o, "ok")) =>
            LET t == up'[r].transactions IN
            /\ up'[r].errors = up[r].errors
            /\ Len(t) = Len(up[r].transactions) + 1
            /\ t[Len(t)].unit = up[r].i
            /\ Records(up[r].i) \subseteq up'[r].pending
            /\ t[Len(t)].classification = JStr("personal")
            /\ t[Len(t)].confidence = JNum(0)]_vars

-----------------------------------------------------------------------------
(* The line heuristic (SpecClient) *)

\* The numbers of a line other than the digits of a date: the number tokens,
\* and the numbers in the fields of an object other than its date.
OtherNumbers(line) ==
    {line[i].v : i \in {j \in 1..Len(line) : line[j].k = "num"}}
        \cup UNION {{NumberInValue(line[i].v[f]).n :
                        f \in {g \in DOMAIN line[i].v \ {"date"} : NumberInValue(line[i].v[g]).ok}} :
                    i \in {j \in 1..Len(line) : line[j].k = "obj"}}

\* C26: strategy 3 builds a transaction from a line only when the line holds
\* a YYYY-MM-DD date and a number besides it: the date is the date match and
\* the amount a number of the line other than the digits of the date; a line
\* with a date and no other number yields no transaction.
C26_LineNeedsDateAndOtherNumber ==
    (Extracted /\ ExtractionStrategyOf(reply.v) = 3) =>
        LET lines == SplitLines(reply.v, <<>>) IN
        \A k \in 1..Len(lines) :
            LET t == TransactionOfLine(lines[k]) IN
            t # <<>> =>
                /\ \E i \in 1..Len(lines[k]) :
                        DateIn(lines[k][i]).ok /\ DateIn(lines[k][i]).d = t[1].date.v
                /\ t[1].amount.v \in OtherNumbers(lines[k])

-----------------------------------------------------------------------------
(* Clearing the marker under concurrent uploads of one user (SpecSameUser) *)

\* C27: clearing the marker never fails: the check-then-remove of the handler
\* answers 499 and the cleanup on exit leaves the response of the upload as it
\* is, also when another request of the user removed the marker in between.
C27_ClearNeverFails ==
    [][\A r \in Reqs :
        /\ RemoveAndCancel(r) => up'[r].status = 499
        /\ FinallyRemove(r) => up'[r].status = up[r].status]_vars

-----------------------------------------------------------------------------
(* The outcome the service returns *)

\* The service has returned its outcome to the handler.
OutcomeReturned(q) == q.pc \in {"final", "rm3"} \/ q.status = 200

\* C28: whenever the service returns an outcome, every unit is accounted for
\* exactly once: processed_count + len(errors) is the number of units, each
\* unit index is in transactions or in errors and never in both, and both
\* lists are in increasing unit order.
C28_EveryUnitAccountedOnce ==
    \A r \in Reqs : OutcomeReturned(up[r]) =>
        /\ Len(up[r].transactions) + Len(up[r].errors) = up[r].n
        /\ \A u \in 1..up[r].n :
              Cardinality({j \in 1..Len(up[r].transactions) : up[r].transactions[j].unit = u})
            + Cardinality({j \in 1..Len(up[r].errors) : up[r].errors[j].unit = u}) = 1
        /\ Ascending(up[r].transactions) /\ Ascending(up[r].errors)

\* C28 witness: an outcome of three units, the first and the last in errors
\* and the second in transactions.
C28_Witness_MixedOutcome ==
    \E r \in Reqs :
        /\ OutcomeReturned(up[r]) /\ up[r].n = 3
        /\ Units(up[r].errors) = {1, 3}
        /\ Units(up[r].transactions) = {2}

-----------------------------------------------------------------------------
(* A marker created while the user has no upload in flight *)

NoUploadInFlight(u) == \A r \in Reqs : up[r].user = u => up[r].pc \in {"idle", "done"}

\* C29: a marker created while its user has no upload in flight stays until
\* the next upload of the user; that upload, with a file of allowed type and
\* size, finds it at the check before processing, ends with 499 with no model
\* call and no record, and removes it; afterwards the marker stays absent
\* until the next cancellation request.
C29_StaleMarkerCancelsNextUpload ==
    /\ [](\A r \in Reqs : up[r].pc \in {"check1", "rm1"} =>
            /\ ValidateFileType(up[r].file, cfg.allowed) /\ ValidateFileSize(up[r].file)
            /\ NothingProcessed(up[r]) /\ up[r].status = 0)
    /\ [][\A u \in Users : (marker[u] /\ NoUploadInFlight(u)) => marker'[u]]_vars
    /\ [][\A r \in Reqs : (up[r].pc = "check1" /\ marker[up[r].user] /\ up'[r] # up[r]) =>
            up'[r] = [up[r] EXCEPT !.pc = "rm1"]]_vars
    /\ [][\A r \in Reqs : (up[r].pc = "rm1" /\ up'[r] # up[r]) =>
            /\ up'[r] = [up[r] EXCEPT !.status = 499, !.pc = "finally"]
            /\ ~marker'[up[r].user]]_vars
    /\ [][\A u \in Users : (~marker[u] /\ marker'[u]) => RequestCancellation(u)]_vars

\* C29 witness: an upload of a file that is neither CSV nor PDF, which only
\* the check before processing can cancel, ended with 499 and the marker is gone.
C29_Witness_CancelledBeforeDispatch ==
    \E r \in Reqs :
        /\ up[r].pc = "done" /\ up[r].status = 499
        /\ up[r].file.ext \notin {"csv", "pdf"}
        /\ NothingProcessed(up[r])
        /\ ~marker[up[r].user]

-----------------------------------------------------------------------------
(* What a cancelled upload leaves in the store *)

\* C30: an upload that ends with 499 has committed no transaction record and
\* no classification record, at whichever point the cancellation arrived.
C30_CancelledStoresNothing ==
    \A r \in Reqs : up[r].status = 499 => up[r].committed = {}

====
